---------------------------- MODULE Spec2Model ----------------------------
(***************************************************************************)
(* rksim: reaction networks, rate-constant grouping and the mass-action    *)
(* derivative (rksim/reactions.py, rksim/networks.py, rksim/systems.py).   *)
(*                                                                         *)
(* Conventions of the model                                                *)
(*  - species names are naturals; their numeric order is the alphabetical  *)
(*    order of the names they stand for (1 = 'A', 2 = 'B', ...).           *)
(*  - node indices are 1..n here and 0..n-1 in the source; the keys of the *)
(*    edge mapping keep the source's 0-based edge positions.               *)
(*  - rate constants and concentrations are integers; the derivative is    *)
(*    held multiplied by ScaleOf(network) so that the division by m in     *)
(*    System.derivative is exact.                                          *)
(*  - the graph is networkx.DiGraph: one attribute record per ordered pair *)
(*    of nodes, add_edge on an existing pair updates the attributes it is  *)
(*    given and keeps the pair's position in the iteration order.          *)
(***************************************************************************)
EXTENDS Integers, Sequences, FiniteSets, TLC

VARIABLES reactions, network, err, call, result, nops, objects

vars == <<reactions, network, err, call, result, nops, objects>>

(* ------------------------------ bounds --------------------------------- *)
NumNames == 2      \* names used by the generated single reactions
MaxArgs  == 3      \* Reactant/Product instances passed to one Reaction
MaxK     == 2      \* rate constants are drawn from 1..MaxK
MaxConc  == 2      \* concentrations are drawn from 0..MaxConc
MaxOps   == 1      \* mutating calls made on a System before it is queried
MaxTime  == 2      \* sample times are drawn from 0..MaxTime
MaxSamples == 3    \* samples held by one array passed to a TimeSeries
MaxObjects == 3    \* Species instances a caller builds Reactions from

(* --------------------------- small helpers ----------------------------- *)
Range(s) == {s[x] : x \in DOMAIN s}

Contains(s, e) == \E x \in DOMAIN s : s[x] = e

RECURSIVE SortedSeq(_)
SortedSeq(S) ==
    IF S = {} THEN <<>>
    ELSE LET m == CHOOSE x \in S : \A y \in S : x <= y
         IN  <<m>> \o SortedSeq(S \ {m})

RECURSIVE Flatten(_)
Flatten(ss) == IF ss = <<>> THEN <<>> ELSE Head(ss) \o Flatten(Tail(ss))

RECURSIVE Pow(_, _)
Pow(b, e) == IF e = 0 THEN 1 ELSE b * Pow(b, e - 1)

RECURSIVE SumSeq(_)
SumSeq(s) == IF s = <<>> THEN 0 ELSE Head(s) + SumSeq(Tail(s))

RECURSIVE ProdSeq(_)
ProdSeq(s) == IF s = <<>> THEN 1 ELSE Head(s) * ProdSeq(Tail(s))

RECURSIVE Gcd(_, _)
Gcd(a, b) == IF b = 0 THEN a ELSE Gcd(b, a % b)

RECURSIVE LcmUpTo(_)
LcmUpTo(n) == IF n <= 1 THEN 1
              ELSE LET l == LcmUpTo(n - 1) IN (l * n) \div Gcd(l, n)

Abs(x) == IF x < 0 THEN 0 - x ELSE x

(* --------------------- species.py / reactions.py ----------------------- *)
Reactant(name) == [name |-> name, role |-> "Reactant", stoichiometry |-> 1]

Product(name) == [name |-> name, role |-> "Product", stoichiometry |-> 1]

\* prune_species: one component per name (whatever its role), the first
\* instance of the name is kept and its stoichiometry becomes the number of
\* instances of the name; the result is sorted by name.
prune_species(components) ==
    LET unique_names == {components[x].name : x \in DOMAIN components}
        identical(name) == SelectSeq(components, LAMBDA s : s.name = name)
        pruned(name) == [identical(name)[1] EXCEPT
                           !.stoichiometry = Len(identical(name))]
        sorted == SortedSeq(unique_names)
    IN  [x \in 1..Len(sorted) |-> pruned(sorted[x])]

Reaction(args, reversible) ==
    [components |-> prune_species(args), reversible |-> reversible, k |-> 1]

Irreversible(args) == Reaction(args, FALSE)

Reversible(args) == Reaction(args, TRUE)

is_reversible(reaction) == reaction.reversible

reactants(reaction) ==
    SelectSeq(reaction.components, LAMBDA s : s.role = "Reactant")

products(reaction) ==
    SelectSeq(reaction.components, LAMBDA s : s.role = "Product")

sto(reaction, name) ==
    LET found == SelectSeq(reaction.components, LAMBDA s : s.name = name)
    IN  IF found = <<>> THEN 0 ELSE found[1].stoichiometry

\* swap_reactants_and_products with two independent tests in place of
\* if / elif: a Reactant turned into a Product is turned back at once
swap_reactants_and_products_TwoIfs(reaction) ==
    [reaction EXCEPT !.components =
        [x \in DOMAIN reaction.components |->
            [reaction.components[x] EXCEPT !.role = "Reactant"]]]

\* swap_reactants_and_products: the class of every component is exchanged in
\* place (every component of the model is a Reactant or a Product)
swap_reactants_and_products(reaction) ==
    [reaction EXCEPT !.components =
        [x \in DOMAIN reaction.components |->
            [reaction.components[x] EXCEPT !.role =
                IF reaction.components[x].role = "Reactant" THEN "Product"
                ELSE "Reactant"]]]

NamesOf(species) == [x \in 1..Len(species) |-> species[x].name]

ordered_names(reaction) ==
    NamesOf(reactants(reaction)) \o NamesOf(products(reaction))

\* ReactionSet.add_reverse_reactions: a reversible reaction is followed by a
\* deep copy of itself with reactants and products swapped; both keep the
\* class (Reversible) and the k of the reaction given
add_reverse_reactions(rxns) ==
    Flatten([x \in 1..Len(rxns) |->
        IF is_reversible(rxns[x])
        THEN <<rxns[x], swap_reactants_and_products(rxns[x])>>
        ELSE <<rxns[x]>>])

\* the first reaction of the set whose ordered_names() are args
Matches(rs, args) == {x \in 1..Len(rs) : ordered_names(rs[x]) = args}

FirstMatch(rs, args) ==
    CHOOSE x \in Matches(rs, args) : \A y \in Matches(rs, args) : x <= y

ReactionSet_rate_constant(rs, args) == rs[FirstMatch(rs, args)].k

\* ReactionSet.set_rate_constant(*names, k=k)
ReactionSet_set_rate_constant(rs, args, k) ==
    [rs EXCEPT ![FirstMatch(rs, args)].k = k]

\* ReactionSet.set_rate_constant(i, k=k): int(args[0]) == i, 0-based
ReactionSet_set_rate_constant_at(rs, i, k) == [rs EXCEPT ![i + 1].k = k]

ReactionSet_set_rate_constants(rs, ks) ==
    [x \in 1..Len(rs) |-> [rs[x] EXCEPT !.k = ks[x]]]

ReactionSet_rate_constants(rs) == [x \in 1..Len(rs) |-> rs[x].k]

(* --------------------------- networkx.DiGraph -------------------------- *)
NoneK == -1           \* k = None on an addition edge

NoSto == <<0, 0>>     \* an edge that has no 'sto' attribute

C0Default == 1        \* c0 = 1E-8, in units of 1E-8 mol dm^-3

EmptyGraph == [nodes |-> <<>>, adj |-> <<>>, attr |-> <<>>,
               edge_mapping |-> <<>>]

HasEdge(G, e) == e \in DOMAIN G.attr

\* the iteration order of G.edges: nodes in insertion order, and for each
\* node its successors in insertion order
Edges(G) ==
    Flatten([u \in 1..Len(G.nodes) |->
               [x \in 1..Len(G.adj[u]) |-> <<u, G.adj[u][x]>>]])

\* DiGraph.add_edge(u, v, **a): a new pair is appended to u's successors
AddEdge(G, u, v, a) ==
    LET e == <<u, v>>
    IN  IF HasEdge(G, e)
        THEN [G EXCEPT !.attr = [G.attr EXCEPT ![e] = a]]
        ELSE [G EXCEPT !.adj = [G.adj EXCEPT ![u] = Append(G.adj[u], v)],
                       !.attr = (e :> a) @@ G.attr]

node_name_to_index(name, G) ==
    LET hits == {x \in 1..Len(G.nodes) : G.nodes[x].name = name}
    IN  CHOOSE x \in hits : \A y \in hits : x <= y

(* ------------------------------ networks.py ---------------------------- *)
\* nodes reached from node_index along addition edges, in edge order
neighbours(G, node_index) ==
    SelectSeq(G.adj[node_index], LAMBDA j : G.attr[<<node_index, j>>].add)

inflow_node(G, node_index) ==
    {j \in 1..Len(G.nodes) :
        HasEdge(G, <<j, node_index>>) /\ ~G.attr[<<j, node_index>>].add}

outflow_node(G, node_index) ==
    SelectSeq(G.adj[node_index], LAMBDA j : ~G.attr[<<node_index, j>>].add)

RECURSIVE AddNodesOf(_, _)
AddNodesOf(G, components) ==
    IF components = <<>> THEN G
    ELSE LET s == Head(components)
             known == \E x \in 1..Len(G.nodes) : G.nodes[x].name = s.name
             G1 == IF known THEN G
                   ELSE [G EXCEPT
                          !.nodes = Append(G.nodes,
                                      [name |-> s.name, c0 |-> C0Default,
                                       n_neighbours |-> 0]),
                          !.adj = Append(G.adj, <<>>)]
         IN  AddNodesOf(G1, Tail(components))

RECURSIVE add_nodes(_, _)
add_nodes(G, rxns) ==
    IF rxns = <<>> THEN G
    ELSE add_nodes(AddNodesOf(G, Head(rxns).components), Tail(rxns))

\* an addition edge keeps the 'sto' the pair already had (attribute update)
AddAttr(G, e) ==
    [k |-> NoneK, add |-> TRUE,
     sto |-> IF HasEdge(G, e) THEN G.attr[e].sto ELSE NoSto]

TooManySpecies(species) == Len(species) > 2

add_addition_edges(G, species) ==
    IF Len(species) = 2
    THEN LET a == node_name_to_index(species[1].name, G)
             b == node_name_to_index(species[2].name, G)
             G1 == AddEdge(G, a, b, AddAttr(G, <<a, b>>))
         IN  AddEdge(G1, b, a, AddAttr(G1, <<b, a>>))
    ELSE G

RxnAttr(default_k, s1, s2) ==
    [k |-> default_k, add |-> FALSE,
     sto |-> <<s1.stoichiometry, s2.stoichiometry>>]

RECURSIVE AddPairs(_, _, _)
AddPairs(G, pairs, reversible) ==
    IF pairs = <<>> THEN G
    ELSE LET r == Head(pairs)[1]
             p == Head(pairs)[2]
             r_idx == node_name_to_index(r.name, G)
             p_idx == node_name_to_index(p.name, G)
             G1 == AddEdge(G, r_idx, p_idx, RxnAttr(1, r, p))
             G2 == IF reversible
                   THEN AddEdge(G1, p_idx, r_idx, RxnAttr(1, p, r))
                   ELSE G1
         IN  AddPairs(G2, Tail(pairs), reversible)

Cross(s, t) ==
    [x \in 1..(Len(s) * Len(t)) |->
        <<s[((x - 1) \div Len(t)) + 1], t[((x - 1) % Len(t)) + 1]>>]

add_reaction_edges(G, reaction) ==
    AddPairs(G, Cross(reactants(reaction), products(reaction)),
             is_reversible(reaction))

populate_neighbour_number(G) ==
    [G EXCEPT !.nodes =
        [x \in 1..Len(G.nodes) |->
            [G.nodes[x] EXCEPT !.n_neighbours = Len(neighbours(G, x))]]]

\* set_edge_mapping without its last loop (the edges from i to the addition
\* neighbours of j)
edges_same_k_NoThird(G, edge) ==
    LET i == edge[1]
        j == edge[2]
        ni == neighbours(G, i)
        nj == neighbours(G, j)
        first == SelectSeq([x \in 1..Len(ni) |-> <<ni[x], j>>],
                           LAMBDA e : HasEdge(G, e))
        second == SelectSeq(Cross(ni, nj),
                            LAMBDA e : HasEdge(G, e) /\ ~G.attr[e].add)
    IN  <<edge>> \o first \o second

\* the edges that get the same k as edge (i, j), in the order of the three
\* loops of set_edge_mapping
edges_same_k(G, edge) ==
    LET i == edge[1]
        j == edge[2]
        ni == neighbours(G, i)
        nj == neighbours(G, j)
        first == SelectSeq([x \in 1..Len(ni) |-> <<ni[x], j>>],
                           LAMBDA e : HasEdge(G, e))
        second == SelectSeq(Cross(ni, nj),
                            LAMBDA e : HasEdge(G, e) /\ ~G.attr[e].add)
        third == SelectSeq([x \in 1..Len(nj) |-> <<i, nj[x]>>],
                           LAMBDA e : HasEdge(G, e))
    IN  <<edge>> \o first \o second \o third

RECURSIVE MapEdges(_, _, _, _, _)
MapEdges(G, edges, n, mapping, added_edges) ==
    IF n > Len(edges) THEN mapping
    ELSE LET edge == edges[n]
         IN  IF G.attr[edge].add \/ Contains(added_edges, edge)
             THEN MapEdges(G, edges, n + 1, mapping, added_edges)
             ELSE LET same == edges_same_k(G, edge)
                  IN  MapEdges(G, edges, n + 1,
                               Append(mapping, [key |-> n - 1, edges |-> same]),
                               added_edges \o same)

set_edge_mapping(G) ==
    [G EXCEPT !.edge_mapping = MapEdges(G, Edges(G), 1, <<>>, <<>>)]

RECURSIVE AddReactions(_, _)
AddReactions(G, rxns) ==
    IF rxns = <<>> THEN G
    ELSE LET reaction == Head(rxns)
             G1 == add_addition_edges(G, reactants(reaction))
             G2 == add_addition_edges(G1, products(reaction))
         IN  AddReactions(add_reaction_edges(G2, reaction), Tail(rxns))

\* add_addition_edges raises NotImplementedError for a side of more than two
\* species
MakeNetworkRaises(rxns) ==
    \E x \in DOMAIN rxns : \/ TooManySpecies(reactants(rxns[x]))
                           \/ TooManySpecies(products(rxns[x]))

\* make_network with the nodes added in the alphabetical order of all names
make_network_AlphabeticalNodes(rxns) ==
    LET names == SortedSeq(UNION {{rxns[x].components[y].name :
                                      y \in DOMAIN rxns[x].components} :
                                  x \in DOMAIN rxns})
        G == AddNodesOf(EmptyGraph, [x \in 1..Len(names) |-> Reactant(names[x])])
    IN  set_edge_mapping(populate_neighbour_number(AddReactions(G, rxns)))

make_network(rxns) ==
    set_edge_mapping(
        populate_neighbour_number(
            AddReactions(add_nodes(EmptyGraph, rxns), rxns)))

(* ------------------------------ systems.py ----------------------------- *)
NodeNames(G) == {G.nodes[x].name : x \in 1..Len(G.nodes)}

\* Network.get_edge(name_i, name_j): the attributes of the pair of nodes of
\* these names; KeyError when a name or the pair is missing
get_edge_raises(G, name_i, name_j) ==
    \/ name_i \notin NodeNames(G)
    \/ name_j \notin NodeNames(G)
    \/ ~HasEdge(G, <<node_name_to_index(name_i, G),
                     node_name_to_index(name_j, G)>>)

get_edge(G, name_i, name_j) ==
    <<node_name_to_index(name_i, G), node_name_to_index(name_j, G)>>

\* System.rate_constants: the k of the first edge of every class
rate_constants(G) ==
    [n \in 1..Len(G.edge_mapping) |-> G.attr[G.edge_mapping[n].edges[1]].k]

RECURSIVE SetKs(_, _)
SetKs(attr, writes) ==
    IF writes = <<>> THEN attr
    ELSE SetKs([attr EXCEPT ![Head(writes)[1]].k = Head(writes)[2]],
               Tail(writes))

\* System.set_rate_constants(ks): for every class n, in order, every edge of
\* the class, in order, gets k = ks[n]
set_rate_constants(G, ks) ==
    LET writes == Flatten([n \in 1..Len(G.edge_mapping) |->
                    [x \in 1..Len(G.edge_mapping[n].edges) |->
                        <<G.edge_mapping[n].edges[x], ks[n]>>]])
    IN  [G EXCEPT !.attr = SetKs(G.attr, writes)]

\* set_rate_constant that writes k to every edge of the classes of the edge
set_rate_constant_Class(G, name_i, name_j, k) ==
    LET e == <<node_name_to_index(name_i, G), node_name_to_index(name_j, G)>>
        mates == {e} \cup UNION {Range(G.edge_mapping[n].edges) :
                     n \in {m \in 1..Len(G.edge_mapping) :
                               Contains(G.edge_mapping[m].edges, e)}}
    IN  [G EXCEPT !.attr = [x \in DOMAIN G.attr |->
                              IF x \in mates THEN [G.attr[x] EXCEPT !.k = k]
                              ELSE G.attr[x]]]

\* System.set_rate_constant(name_i, name_j, k): edge['k'] = k
set_rate_constant(G, name_i, name_j, k) ==
    [G EXCEPT !.attr[get_edge(G, name_i, name_j)].k = k]

\* Network.node_mapping: the index of the node of every name
node_mapping(G) == [name \in NodeNames(G) |-> node_name_to_index(name, G)]

\* set_initial_concentration that writes c to the c0 of every node
set_initial_concentration_All(G, name, c) ==
    [G EXCEPT !.nodes = [x \in 1..Len(G.nodes) |->
                            [G.nodes[x] EXCEPT !.c0 = c]]]

\* System.set_initial_concentration(name, c): nodes[node_index]['c0'] =
\* float(c); c is a number and float keeps its value
set_initial_concentration(G, name, c) ==
    [G EXCEPT !.nodes[node_mapping(G)[name]].c0 = c]

ScaleOf(G) == LcmUpTo(Len(G.nodes))

\* an outflow term without the stoichiometry of i as a multiplier
OutflowTerm_NoSto(G, c, i, j) ==
    LET partners == SelectSeq(neighbours(G, i),
                      LAMBDA k : HasEdge(G, <<k, j>>) /\ ~G.attr[<<k, j>>].add)
        s == G.attr[<<i, j>>].sto[1]
        conc == Pow(c[i], s)
                * ProdSeq([x \in 1..Len(partners) |->
                     LET sk == G.attr[<<partners[x], j>>].sto[1]
                     IN  sk * Pow(c[partners[x]], sk)])
        m == 1 + Len(SelectSeq(neighbours(G, j),
                               LAMBDA k : HasEdge(G, <<i, k>>)))
    IN  (G.attr[<<i, j>>].k * conc * ScaleOf(G)) \div m

\* one outflow term of System.derivative, for the reaction edge i -> j,
\* multiplied by ScaleOf(G)
OutflowTerm(G, c, i, j) ==
    LET neighbours_i == neighbours(G, i)
        partners == SelectSeq(neighbours_i,
                      LAMBDA k : HasEdge(G, <<k, j>>) /\ ~G.attr[<<k, j>>].add)
        s == G.attr[<<i, j>>].sto[1]
        conc == s * Pow(c[i], s)
                * ProdSeq([x \in 1..Len(partners) |->
                     LET sk == G.attr[<<partners[x], j>>].sto[1]
                     IN  sk * Pow(c[partners[x]], sk)])
        m == 1 + Len(SelectSeq(neighbours(G, j),
                               LAMBDA k : HasEdge(G, <<i, k>>)))
    IN  (G.attr[<<i, j>>].k * conc * ScaleOf(G)) \div m

\* an inflow term that is not divided by the number of co-reactant edges
InflowTerm_NoShare(G, c, i, j) ==
    LET partners == SelectSeq(neighbours(G, j),
                      LAMBDA k : HasEdge(G, <<k, i>>) /\ ~G.attr[<<k, i>>].add)
        sto_j == G.attr[<<j, i>>].sto[1]
        sto_i == G.attr[<<j, i>>].sto[2]
        conc == sto_i * Pow(c[j], sto_j)
                * ProdSeq([x \in 1..Len(partners) |->
                     LET e == G.attr[<<partners[x], i>>]
                     IN  e.sto[2] * Pow(c[partners[x]], e.sto[1])])
    IN  conc * G.attr[<<j, i>>].k * ScaleOf(G)

\* one inflow term of System.derivative, for the reaction edge j -> i,
\* multiplied by ScaleOf(G); the product stoichiometry used for a partner
\* k is the one of the edge k -> i
InflowTerm(G, c, i, j) ==
    LET partners == SelectSeq(neighbours(G, j),
                      LAMBDA k : HasEdge(G, <<k, i>>) /\ ~G.attr[<<k, i>>].add)
        sto_j == G.attr[<<j, i>>].sto[1]
        sto_i == G.attr[<<j, i>>].sto[2]
        conc == sto_i * Pow(c[j], sto_j)
                * ProdSeq([x \in 1..Len(partners) |->
                     LET e == G.attr[<<partners[x], i>>]
                     IN  e.sto[2] * Pow(c[partners[x]], e.sto[1])])
        m == 1 + Len(partners)
    IN  (conc * G.attr[<<j, i>>].k * ScaleOf(G)) \div m

\* a derivative that forgets the inflows over reverse edges: an inflow from j
\* is dropped when i also flows out to j
derivative_OneWay(G, c) ==
    [i \in 1..Len(G.nodes) |->
        LET outs == outflow_node(G, i)
            ins == SortedSeq(inflow_node(G, i) \ Range(outs))
        IN  SumSeq([x \in 1..Len(ins) |-> InflowTerm(G, c, i, ins[x])])
            - SumSeq([x \in 1..Len(outs) |-> OutflowTerm(G, c, i, outs[x])])]

\* System.derivative(concentrations): dcdt[i] = inflows - outflows
derivative(G, c) ==
    [i \in 1..Len(G.nodes) |->
        LET outs == outflow_node(G, i)
            ins == SortedSeq(inflow_node(G, i))
        IN  SumSeq([x \in 1..Len(ins) |-> InflowTerm(G, c, i, ins[x])])
            - SumSeq([x \in 1..Len(outs) |-> OutflowTerm(G, c, i, outs[x])])]

(* ------------------------- systems that are built ---------------------- *)
\* the constructions of tests/test_systems.py, tests/test_networks.py and
\* tests/test_simple.py (names by alphabetical rank inside each system)
Sys_R_P == <<Irreversible(<<Reactant(2), Product(1)>>)>>

Sys_AB_C == <<Irreversible(<<Reactant(1), Reactant(2), Product(3)>>)>>

Sys_A_BC == <<Irreversible(<<Reactant(1), Product(2), Product(3)>>)>>

Sys_RevR_P == <<Reversible(<<Reactant(2), Product(1)>>)>>

Sys_RevAB_CD ==
    <<Reversible(<<Reactant(1), Reactant(2), Product(3), Product(4)>>)>>

Sys_Funnel == <<Irreversible(<<Reactant(1), Product(3)>>),
                Irreversible(<<Reactant(2), Product(3)>>),
                Irreversible(<<Reactant(3), Product(4)>>)>>

Sys_2A_B == <<Irreversible(<<Reactant(1), Reactant(1), Product(2)>>)>>

Sys_A_2B == <<Irreversible(<<Reactant(1), Product(2), Product(2)>>)>>

Sys_2A_B_A_C == <<Irreversible(<<Reactant(1), Reactant(1), Product(2)>>),
                  Irreversible(<<Reactant(1), Product(3)>>)>>

\* E = 1, ES = 2, P = 3, S = 4
Sys_Enzyme == <<Reversible(<<Reactant(1), Reactant(4), Product(2)>>),
                Irreversible(<<Reactant(2), Product(1), Product(3)>>)>>

Sys_Species == <<Irreversible(<<Reactant(3), Product(2)>>),
                 Irreversible(<<Reactant(1), Product(2)>>)>>

Sys_AB_CD ==
    <<Irreversible(<<Reactant(1), Reactant(2), Product(3), Product(4)>>)>>

Sys_RevAB_P == <<Reversible(<<Reactant(1), Reactant(2), Product(3)>>)>>

\* A + B <-> P + D: A = 1, B = 2, D = 3, P = 4
Sys_RevAB_PD ==
    <<Reversible(<<Reactant(1), Reactant(2), Product(4), Product(3)>>)>>

Sys_Chain == <<Reversible(<<Reactant(1), Product(2)>>),
               Reversible(<<Reactant(2), Product(3)>>)>>

Sys_Long == <<Irreversible(<<Reactant(1), Reactant(2), Product(3)>>),
              Reversible(<<Reactant(3), Product(4), Product(5)>>),
              Irreversible(<<Reactant(5), Product(6)>>)>>

Sys_A_B_A_C == <<Irreversible(<<Reactant(1), Product(2)>>),
                 Irreversible(<<Reactant(1), Product(3)>>)>>

\* A + B -> C, A -> D, B -> D: co-reactants that each react to D
Sys_AB_C_A_D_B_D == <<Irreversible(<<Reactant(1), Reactant(2), Product(3)>>),
                      Irreversible(<<Reactant(1), Product(4)>>),
                      Irreversible(<<Reactant(2), Product(4)>>)>>

\* A -> B + C, A -> C + D: one reactant, two reactions, a common product
Sys_A_BC_A_CD == <<Irreversible(<<Reactant(1), Product(2), Product(3)>>),
                   Irreversible(<<Reactant(1), Product(3), Product(4)>>)>>

\* A + B -> P, B + C -> P: B is a co-reactant of A and of C (C = 3, P = 4)
Sys_AB_P_BC_P == <<Irreversible(<<Reactant(1), Reactant(2), Product(4)>>),
                   Irreversible(<<Reactant(2), Reactant(3), Product(4)>>)>>

\* A + B -> C, B + C -> D: B reacts to C and then with C
Sys_AB_C_BC_D == <<Irreversible(<<Reactant(1), Reactant(2), Product(3)>>),
                   Irreversible(<<Reactant(2), Reactant(3), Product(4)>>)>>

\* A -> B + C, B -> C: the products of one reaction react with one another
Sys_A_BC_B_C == <<Irreversible(<<Reactant(1), Product(2), Product(3)>>),
                  Irreversible(<<Reactant(2), Product(3)>>)>>

SharedPartnerSystems == {Sys_AB_P_BC_P, Sys_AB_C_BC_D, Sys_A_BC_B_C}

\* reactions of three species on one side: A + B + C -> D, A -> B + C + D
\* and A -> A + B + C
Args_ABC_D == <<Reactant(1), Reactant(2), Reactant(3), Product(4)>>

Args_A_BCD == <<Reactant(1), Product(2), Product(3), Product(4)>>

Args_A_ABC == <<Reactant(1), Product(1), Product(2), Product(3)>>

ThreeOnASideArgs == {Args_ABC_D, Args_A_BCD, Args_A_ABC}

ThreeOnASideSystems == {<<Irreversible(args)>> : args \in ThreeOnASideArgs}

\* the systems on which the calls of a System are explored
TestSystems ==
    {Sys_R_P, Sys_AB_C, Sys_A_BC, Sys_RevR_P, Sys_RevAB_CD, Sys_Funnel,
     Sys_2A_B, Sys_A_2B, Sys_2A_B_A_C, Sys_Enzyme, Sys_Species,
     Sys_RevAB_P, Sys_Chain, Sys_A_B_A_C, Sys_AB_C_A_D_B_D, Sys_A_BC_A_CD}

\* the further constructions of tests/test_networks.py
NetworkTestSystems == {Sys_AB_CD, Sys_RevAB_PD, Sys_Long}

\* every single reaction of at most MaxArgs instances over NumNames names:
\* the reactants in name order, then the products in name order
RECURSIVE Repeat(_, _)
Repeat(x, n) == IF n = 0 THEN <<>> ELSE <<x>> \o Repeat(x, n - 1)

ArgsOf(rc, pc) ==
    Flatten([x \in 1..NumNames |-> Repeat(Reactant(x), rc[x])])
    \o Flatten([x \in 1..NumNames |-> Repeat(Product(x), pc[x])])

Count(f) == SumSeq([x \in 1..NumNames |-> f[x]])

GeneratedArgs ==
    {ArgsOf(rc, pc) : <<rc, pc>> \in
        {t \in [1..NumNames -> 0..MaxArgs] \X [1..NumNames -> 0..MaxArgs] :
            /\ Count(t[1]) >= 1
            /\ Count(t[2]) >= 1
            /\ Count(t[1]) + Count(t[2]) <= MaxArgs}}

GeneratedSystems ==
    {<<Reaction(args, rev)>> : args \in GeneratedArgs, rev \in BOOLEAN}

\* the systems whose construction is explored
Systems ==
    TestSystems \cup NetworkTestSystems \cup ThreeOnASideSystems
    \cup SharedPartnerSystems \cup GeneratedSystems

(* ------------------------------ the System ----------------------------- *)
\* call: the last call made on the System; v holds its arguments when it
\* returned, and is empty when it raised
NoCall == [op |-> "init", v |-> <<>>]

ConstructedFrom(rxns) ==
    /\ reactions = rxns
    /\ network = IF MakeNetworkRaises(rxns) THEN EmptyGraph
                 ELSE make_network(rxns)
    /\ err = IF MakeNetworkRaises(rxns) THEN "NotImplementedError" ELSE ""
    /\ call = NoCall
    /\ result = <<>>
    /\ nops = 0
    /\ objects = <<>>

\* System(*args): self.network = make_network(args)
Init == \E rxns \in TestSystems : ConstructedFrom(rxns)

InitBuild == \E rxns \in Systems : ConstructedFrom(rxns)

Constructed == ~MakeNetworkRaises(reactions)

\* a run is a construction, at most MaxOps mutating calls and one query
Queried == call.op \in {"rate_constant", "rate_constants", "derivative"}

CanCall == Constructed /\ ~Queried /\ nops < MaxOps

CanQuery == Constructed /\ ~Queried

KValues == 1..MaxK

\* the lists a caller may pass for n rate constants: every list of n values
\* and, for every other length up to n + 1, the lists of one repeated value
\* (only the length of such a list is read)
KsLists(n) ==
    [1..n -> KValues]
    \cup {[x \in 1..m |-> k] : m \in (0..(n + 1)) \ {n}, k \in KValues}

\* names a caller may pass: the network's names and one unknown name
CallNames == NodeNames(network) \cup {0}

\* set_rate_constants(ks): assert len(ks) == n_edges comes before any write
SetRateConstants(ks) ==
    /\ CanCall
    /\ IF Len(ks) # Len(network.edge_mapping)
       THEN /\ err' = "AssertionError"
            /\ call' = [op |-> "set_rate_constants", v |-> <<>>]
            /\ UNCHANGED network
       ELSE /\ err' = ""
            /\ call' = [op |-> "set_rate_constants", v |-> ks]
            /\ network' = set_rate_constants(network, ks)
    /\ result' = <<>>
    /\ nops' = nops + 1
    /\ UNCHANGED <<reactions, objects>>

\* set_rate_constants(k=x): ks = n_edges * [k]
SetRateConstantsAll(k) ==
    /\ CanCall
    /\ network' = set_rate_constants(network,
                     [n \in 1..Len(network.edge_mapping) |-> k])
    /\ err' = ""
    /\ call' = [op |-> "set_rate_constants_k", v |-> <<k>>]
    /\ result' = <<>>
    /\ nops' = nops + 1
    /\ UNCHANGED <<reactions, objects>>

SetRateConstant(name_i, name_j, k) ==
    /\ CanCall
    /\ IF get_edge_raises(network, name_i, name_j)
       THEN /\ err' = "CannotSetAttribute"
            /\ call' = [op |-> "set_rate_constant", v |-> <<>>]
            /\ UNCHANGED network
       ELSE /\ err' = ""
            /\ call' = [op |-> "set_rate_constant",
                        v |-> <<name_i, name_j, k>>]
            /\ network' = set_rate_constant(network, name_i, name_j, k)
    /\ result' = <<>>
    /\ nops' = nops + 1
    /\ UNCHANGED <<reactions, objects>>

\* KeyError on node_mapping[name] becomes CannotSetAttribute
SetInitialConcentration(name, c) ==
    /\ CanCall
    /\ IF name \notin DOMAIN node_mapping(network)
       THEN /\ err' = "CannotSetAttribute"
            /\ call' = [op |-> "set_initial_concentration", v |-> <<name>>]
            /\ UNCHANGED network
       ELSE /\ err' = ""
            /\ call' = [op |-> "set_initial_concentration", v |-> <<name, c>>]
            /\ network' = set_initial_concentration(network, name, c)
    /\ result' = <<>>
    /\ nops' = nops + 1
    /\ UNCHANGED <<reactions, objects>>

RateConstant(name_i, name_j) ==
    /\ CanQuery
    /\ IF get_edge_raises(network, name_i, name_j)
       THEN /\ err' = "CannotGetAttribute"
            /\ call' = [op |-> "rate_constant", v |-> <<>>]
            /\ result' = <<>>
       ELSE /\ err' = ""
            /\ call' = [op |-> "rate_constant", v |-> <<name_i, name_j>>]
            /\ result' = <<network.attr[get_edge(network, name_i, name_j)].k>>
    /\ UNCHANGED <<reactions, network, nops, objects>>

RateConstants ==
    /\ CanQuery
    /\ call' = [op |-> "rate_constants", v |-> <<>>]
    /\ err' = ""
    /\ result' = rate_constants(network)
    /\ UNCHANGED <<reactions, network, nops, objects>>

Derivative(c) ==
    /\ CanQuery
    /\ call' = [op |-> "derivative", v |-> c]
    /\ err' = ""
    /\ result' = derivative(network, c)
    /\ UNCHANGED <<reactions, network, nops, objects>>

\* the rate constants and initial concentrations of a System are set and
\* the rate constants are read
Next ==
    \/ \E ks \in KsLists(Len(network.edge_mapping)) : SetRateConstants(ks)
    \/ \E k \in KValues : SetRateConstantsAll(k)
    \/ \E name_i \in CallNames, name_j \in CallNames, k \in KValues :
          SetRateConstant(name_i, name_j, k)
    \/ \E name \in CallNames, c \in 0..MaxConc :
          SetInitialConcentration(name, c)
    \/ \E name_i \in CallNames, name_j \in CallNames :
          RateConstant(name_i, name_j)
    \/ RateConstants

\* the rate constants are set class by class and the derivative is taken
NextDeriv ==
    \/ \E ks \in [1..Len(network.edge_mapping) -> KValues] :
          SetRateConstants(ks)
    \/ \E k \in KValues : SetRateConstantsAll(k)
    \/ \E c \in [1..Len(network.nodes) -> 0..MaxConc] : Derivative(c)

\* a System is built and read
NextBuild ==
    \/ \E name_i \in CallNames, name_j \in CallNames :
          RateConstant(name_i, name_j)
    \/ RateConstants

Spec == Init /\ [][Next]_vars

SpecDeriv == Init /\ [][NextDeriv]_vars

SpecBuild == InitBuild /\ [][NextBuild]_vars

(* ----------------------------- one Reaction ---------------------------- *)
SpeciesInstances ==
    {Reactant(x) : x \in 1..NumNames} \cup {Product(x) : x \in 1..NumNames}

\* the flat lists of at most MaxArgs instances, in any order
ArgLists == UNION {[1..m -> SpeciesInstances] : m \in 0..MaxArgs}

\* Irreversible(*args) or Reversible(*args); reactions holds the one object
InitReaction ==
    \E args \in ArgLists, rev \in BOOLEAN :
        /\ reactions = <<Reaction(args, rev)>>
        /\ network = EmptyGraph
        /\ err = ""
        /\ call = [op |-> "Reaction", v |-> args]
        /\ result = <<>>
        /\ nops = 0
        /\ objects = <<>>

ReactionQueried == call.op \in {"ordered_names", "sto"}

SwapReactantsAndProducts ==
    /\ ~ReactionQueried
    /\ nops < MaxOps
    /\ reactions' = <<swap_reactants_and_products(reactions[1])>>
    /\ call' = [op |-> "swap_reactants_and_products", v |-> <<>>]
    /\ nops' = nops + 1
    /\ UNCHANGED <<network, err, result, objects>>

OrderedNames ==
    /\ ~ReactionQueried
    /\ call' = [op |-> "ordered_names", v |-> <<>>]
    /\ result' = ordered_names(reactions[1])
    /\ UNCHANGED <<reactions, network, err, nops, objects>>

Sto(name) ==
    /\ ~ReactionQueried
    /\ call' = [op |-> "sto", v |-> <<name>>]
    /\ result' = <<sto(reactions[1], name)>>
    /\ UNCHANGED <<reactions, network, err, nops, objects>>

NextReaction ==
    \/ SwapReactantsAndProducts
    \/ OrderedNames
    \/ \E name \in 0..NumNames : Sto(name)

SpecReaction == InitReaction /\ [][NextReaction]_vars

(* --------------------------- one ReactionSet --------------------------- *)
\* ReactionSet(*args): self.reactions = args; self.add_reverse_reactions()
InitSet ==
    \E rxns \in Systems :
        /\ reactions = add_reverse_reactions(rxns)
        /\ network = EmptyGraph
        /\ err = ""
        /\ call = [op |-> "ReactionSet", v |-> rxns]
        /\ result = <<>>
        /\ nops = 0
        /\ objects = <<>>

SetQueried == call.op \in {"rate_constant", "rate_constants"}

SetCanCall == ~SetQueried /\ nops < MaxOps

\* name lists a caller may pass: the names of a reaction of the set, forwards
\* and backwards, and an unknown name
SetCallArgs ==
    {ordered_names(reactions[x]) : x \in 1..Len(reactions)}
    \cup {ordered_names(swap_reactants_and_products(reactions[x])) :
             x \in 1..Len(reactions)}
    \cup {<<0>>}

ReactionSetSetRateConstant(args, k) ==
    /\ SetCanCall
    /\ IF Matches(reactions, args) = {}
       THEN /\ err' = "CannotSetAttribute"
            /\ call' = [op |-> "set_rate_constant", v |-> <<>>]
            /\ UNCHANGED reactions
       ELSE /\ err' = ""
            /\ call' = [op |-> "set_rate_constant", v |-> <<args, k>>]
            /\ reactions' = ReactionSet_set_rate_constant(reactions, args, k)
    /\ nops' = nops + 1
    /\ UNCHANGED <<network, result, objects>>

ReactionSetSetRateConstantAt(i, k) ==
    /\ SetCanCall
    /\ IF i >= Len(reactions)
       THEN /\ err' = "CannotSetAttribute"
            /\ call' = [op |-> "set_rate_constant_at", v |-> <<>>]
            /\ UNCHANGED reactions
       ELSE /\ err' = ""
            /\ call' = [op |-> "set_rate_constant_at", v |-> <<i, k>>]
            /\ reactions' = ReactionSet_set_rate_constant_at(reactions, i, k)
    /\ nops' = nops + 1
    /\ UNCHANGED <<network, result, objects>>

\* if len(ks) != n: raise CannotSetAttribute, before any write
ReactionSetSetRateConstants(ks) ==
    /\ SetCanCall
    /\ IF Len(ks) # Len(reactions)
       THEN /\ err' = "CannotSetAttribute"
            /\ call' = [op |-> "set_rate_constants", v |-> <<>>]
            /\ UNCHANGED reactions
       ELSE /\ err' = ""
            /\ call' = [op |-> "set_rate_constants", v |-> ks]
            /\ reactions' = ReactionSet_set_rate_constants(reactions, ks)
    /\ nops' = nops + 1
    /\ UNCHANGED <<network, result, objects>>

ReactionSetRateConstant(args) ==
    /\ ~SetQueried
    /\ IF Matches(reactions, args) = {}
       THEN /\ err' = "CannotGetAttribute"
            /\ call' = [op |-> "rate_constant", v |-> <<>>]
            /\ result' = <<>>
       ELSE /\ err' = ""
            /\ call' = [op |-> "rate_constant", v |-> args]
            /\ result' = <<ReactionSet_rate_constant(reactions, args)>>
    /\ UNCHANGED <<reactions, network, nops, objects>>

ReactionSetRateConstants ==
    /\ ~SetQueried
    /\ err' = ""
    /\ call' = [op |-> "rate_constants", v |-> <<>>]
    /\ result' = ReactionSet_rate_constants(reactions)
    /\ UNCHANGED <<reactions, network, nops, objects>>

NextSet ==
    \/ \E args \in SetCallArgs, k \in KValues :
          ReactionSetSetRateConstant(args, k)
    \/ \E i \in 0..Len(reactions), k \in KValues :
          ReactionSetSetRateConstantAt(i, k)
    \/ \E ks \in KsLists(Len(reactions)) : ReactionSetSetRateConstants(ks)
    \/ \E args \in SetCallArgs : ReactionSetRateConstant(args)
    \/ ReactionSetRateConstants

SpecSet == InitSet /\ [][NextSet]_vars

(* ------------------- mass-action reference (claims) -------------------- *)
\* the irreversible reactions of a list: a reversible reaction gives its
\* forward form and then its backward form
Expanded(rxns) ==
    Flatten([x \in 1..Len(rxns) |->
        LET fwd == [R |-> reactants(rxns[x]), P |-> products(rxns[x])]
        IN  IF is_reversible(rxns[x])
            THEN <<fwd, [R |-> fwd.P, P |-> fwd.R]>>
            ELSE <<fwd>>])

StoIn(side, name) ==
    SumSeq([x \in 1..Len(side) |->
              IF side[x].name = name THEN side[x].stoichiometry ELSE 0])

\* the reaction edges of an expanded reaction: every reactant to every
\* product
EdgesOf(G, r) ==
    {<<node_name_to_index(r.R[x].name, G), node_name_to_index(r.P[y].name, G)>> :
        x \in 1..Len(r.R), y \in 1..Len(r.P)}

\* every reaction has a reactant and a product
WellFormed(rxns) ==
    \A x \in 1..Len(rxns) :
        reactants(rxns[x]) # <<>> /\ products(rxns[x]) # <<>>

\* the edges of reaction r are reaction edges that hold one common k
HasOneK(G, r) ==
    /\ \A e \in EdgesOf(G, r) : HasEdge(G, e) /\ ~G.attr[e].add
    /\ \A e1 \in EdgesOf(G, r), e2 \in EdgesOf(G, r) :
          G.attr[e1].k = G.attr[e2].k

KOf(G, r) == G.attr[CHOOSE e \in EdgesOf(G, r) : TRUE].k

\* d[X]/dt of the species at node i by the law of mass action
MassAction(G, rxns, c, i) ==
    LET ex == Expanded(rxns)
        name == G.nodes[i].name
        rate(r) == KOf(G, r)
                   * ProdSeq([x \in 1..Len(r.R) |->
                        Pow(c[node_name_to_index(r.R[x].name, G)],
                            r.R[x].stoichiometry)])
    IN  SumSeq([x \in 1..Len(ex) |->
                  (StoIn(ex[x].P, name) - StoIn(ex[x].R, name)) * rate(ex[x])])

DerivativeReturned == call.op = "derivative" /\ err = ""

(* -------------------------------- claims ------------------------------- *)
\* C1: for every accepted network whose reactions each have a reactant and a
\* product, every concentration vector and every assignment of one rate
\* constant per reaction, derivative(c) is the mass-action reference
\* d[X]/dt = sum_r (product sto - reactant sto) * k_r * prod_m c[m]^sto_m.
C1_MassActionEverywhere ==
    (/\ DerivativeReturned
     /\ WellFormed(reactions)
     /\ \A x \in 1..Len(Expanded(reactions)) :
           HasOneK(network, Expanded(reactions)[x]))
    => \A i \in 1..Len(network.nodes) :
          result[i] = ScaleOf(network)
                      * MassAction(network, reactions, call.v, i)

\* C2: for A + B -> C with rate constant k and any concentrations,
\* d[A]/dt = d[B]/dt = -k[A][B] and d[C]/dt = +k[A][B].
C2_BimolecularRate ==
    (/\ reactions = Sys_AB_C
     /\ DerivativeReturned
     /\ network.attr[<<1, 3>>].k = network.attr[<<2, 3>>].k)
    => LET k == network.attr[<<1, 3>>].k
           c == call.v
           rate == ScaleOf(network) * k * c[1] * c[2]
       IN  result = <<0 - rate, 0 - rate, rate>>

C2_Witness ==
    /\ reactions = Sys_AB_C
    /\ DerivativeReturned
    /\ network.attr[<<1, 3>>].k = 2
    /\ network.attr[<<2, 3>>].k = 2
    /\ call.v = <<2, 1, 0>>
    /\ result[3] = ScaleOf(network) * 4

C4_Reversible ==
    (reactions = Sys_RevR_P /\ DerivativeReturned)
    => LET kf == network.attr[<<2, 1>>].k
           kb == network.attr[<<1, 2>>].k
           p == call.v[1]
           r == call.v[2]
           S == ScaleOf(network)
       IN  /\ result[1] = S * (kf * r - kb * p)
           /\ result[2] = S * (kb * p - kf * r)
           /\ result[1] + result[2] = 0

C4_Witness ==
    /\ reactions = Sys_RevR_P
    /\ DerivativeReturned
    /\ network.attr[<<2, 1>>].k = 2
    /\ network.attr[<<1, 2>>].k = 1
    /\ call.v = <<1, 2>>
    /\ result[1] = ScaleOf(network) * 3

\* C5: the enzyme system E + S <-> ES, ES -> E + P has exactly three rate
\* constants [kf, kb, kr] and d[E]/dt = -kf[E][S] + kb[ES] + kr[ES],
\* d[ES]/dt = kf[E][S] - kb[ES] - kr[ES], d[S]/dt = -kf[E][S] + kb[ES],
\* d[P]/dt = kr[ES]  (nodes: E = 1, ES = 2, S = 3, P = 4).
C5_Enzyme ==
    reactions = Sys_Enzyme
    => /\ Len(network.edge_mapping) = 3
       /\ (DerivativeReturned /\ call.op = "derivative")
          => LET ks == rate_constants(network)
                 kf == ks[1]
                 kb == ks[2]
                 kr == ks[3]
                 e == call.v[1]
                 es == call.v[2]
                 sb == call.v[3]
                 S == ScaleOf(network)
             IN  result = <<S * (kb * es + kr * es - kf * e * sb),
                            S * (kf * e * sb - kb * es - kr * es),
                            S * (kb * es - kf * e * sb),
                            S * kr * es>>

(* ------------------------- grouping (claims) --------------------------- *)
ClassesOf(G) == 1..Len(G.edge_mapping)

ReactionEdges(G) == {e \in DOMAIN G.attr : ~G.attr[e].add}

SameClass(G, e1, e2) ==
    \E n \in ClassesOf(G) : /\ Contains(G.edge_mapping[n].edges, e1)
                            /\ Contains(G.edge_mapping[n].edges, e2)

SameReaction(G, rxns, e1, e2) ==
    \E x \in 1..Len(Expanded(rxns)) :
        {e1, e2} \subseteq EdgesOf(G, Expanded(rxns)[x])

\* C6: the number of rate-constant classes is 1 for A + B -> P and for
\* A + B -> C + D, 2 for A + B <-> P and for A + B <-> P + D, 4 for the
\* chained reversible pair and 4 for A + B -> C, C <-> D + E, E -> F.
C6_ClassCounts ==
    Constructed
    => /\ reactions = Sys_AB_C => Len(network.edge_mapping) = 1
       /\ reactions = Sys_AB_CD => Len(network.edge_mapping) = 1
       /\ reactions = Sys_RevAB_P => Len(network.edge_mapping) = 2
       /\ reactions = Sys_RevAB_PD => Len(network.edge_mapping) = 2
       /\ reactions = Sys_Chain => Len(network.edge_mapping) = 4
       /\ reactions = Sys_Long => Len(network.edge_mapping) = 4

C6_Witness ==
    /\ reactions = Sys_Long
    /\ call.op = "rate_constants"
    /\ Len(result) = 4
    /\ Len(network.edge_mapping) = 4

\* C7: for every accepted list of reactions, the number of classes is the
\* number of reactions after the expansion of the reversible ones, and two
\* reaction edges are in the same class iff they belong to the same
\* expanded reaction.
C7_OneClassPerReaction ==
    (Constructed /\ WellFormed(reactions))
    => /\ Len(network.edge_mapping) = Len(Expanded(reactions))
       /\ \A e1 \in ReactionEdges(network), e2 \in ReactionEdges(network) :
             SameClass(network, e1, e2)
             <=> SameReaction(network, reactions, e1, e2)

\* C8: in every reachable state, all the reaction edges of one class hold
\* the same k.
C8_LockStep ==
    \A n \in ClassesOf(network) :
        \A e1 \in Range(network.edge_mapping[n].edges),
           e2 \in Range(network.edge_mapping[n].edges) :
            (~network.attr[e1].add /\ ~network.attr[e2].add)
            => network.attr[e1].k = network.attr[e2].k

C10_GroupedRoundTrip ==
    LET ks == IF call.op = "set_rate_constants" THEN call.v
              ELSE [n \in ClassesOf(network) |-> call.v[1]]
    IN  (call.op \in {"set_rate_constants", "set_rate_constants_k"} /\ err = "")
        => /\ \A n \in ClassesOf(network) :
                 \A e \in Range(network.edge_mapping[n].edges) :
                     ~network.attr[e].add => network.attr[e].k = ks[n]
           /\ \A e \in DOMAIN network.attr :
                 network.attr[e].add => network.attr[e].k = NoneK
           /\ rate_constants(network) = ks

\* C11: set_rate_constants(ks) succeeds only for a list of as many entries as
\* there are classes; a call that fails raises CannotSetAttribute and leaves
\* the network as it was.
C11_WrongLengthRejected ==
    [][(call'.op = "set_rate_constants" /\ nops' = nops + 1)
       => IF err' = ""
          THEN Len(call'.v) = Len(network.edge_mapping)
          ELSE err' = "CannotSetAttribute" /\ network' = network]_vars

IsReactionEdge(G, name_i, name_j) ==
    /\ name_i \in NodeNames(G)
    /\ name_j \in NodeNames(G)
    /\ LET e == <<node_name_to_index(name_i, G), node_name_to_index(name_j, G)>>
       IN  HasEdge(G, e) /\ ~G.attr[e].add

\* C12: rate_constant(name_i, name_j) and set_rate_constant(name_i, name_j, k)
\* return only when the network has a reaction edge from i to j; otherwise
\* they raise CannotGetAttribute and CannotSetAttribute, and the network (its
\* nodes, its edges and every k) is unchanged.
C12_MissingEdgeFails ==
    [][/\ call'.op = "rate_constant"
          => IF err' = ""
             THEN IsReactionEdge(network, call'.v[1], call'.v[2])
             ELSE err' = "CannotGetAttribute" /\ network' = network
       /\ (call'.op = "set_rate_constant" /\ nops' = nops + 1)
          => IF err' = ""
             THEN IsReactionEdge(network, call'.v[1], call'.v[2])
             ELSE err' = "CannotSetAttribute" /\ network' = network]_vars

\* C13: set_initial_concentration(name, c) on a name of the network sets the
\* c0 of the node of that name to c and changes no other c0, no k and no
\* edge; on any other name it raises CannotSetAttribute and the network is
\* unchanged.
C13_InitialConcentration ==
    [][(call'.op = "set_initial_concentration" /\ nops' = nops + 1)
       => IF call'.v[1] \in NodeNames(network)
          THEN /\ err' = ""
               /\ network'.nodes =
                     [x \in 1..Len(network.nodes) |->
                        IF network.nodes[x].name = call'.v[1]
                        THEN [network.nodes[x] EXCEPT !.c0 = call'.v[2]]
                        ELSE network.nodes[x]]
               /\ network'.attr = network.attr
               /\ network'.adj = network.adj
               /\ network'.edge_mapping = network.edge_mapping
          ELSE err' = "CannotSetAttribute" /\ network' = network]_vars

C13_Witness ==
    /\ reactions = Sys_R_P
    /\ call = [op |-> "set_initial_concentration", v |-> <<2, 2>>]
    /\ err = ""
    /\ network.nodes[2].c0 = 2
    /\ network.nodes[1].c0 = C0Default

(* ------------------------- reactions (claims) -------------------------- *)
\* the number of instances of a name and role in a flat list
Occurrences(args, role, name) ==
    Len(SelectSeq(args, LAMBDA a : a.role = role /\ a.name = name))

\* the components of a name on one side of a reaction
OnSide(reaction, role, name) ==
    SelectSeq(reaction.components, LAMBDA s : s.role = role /\ s.name = name)

\* C14: a Reaction built from a flat list holds, on each side, one component
\* per name of that side, whose stoichiometry is the number of instances of
\* the name on that side (and none for a name that is not on that side).
C14_StoichiometryPerSide ==
    call.op = "Reaction"
    => \A role \in {"Reactant", "Product"}, name \in 1..NumNames :
          LET n == Occurrences(call.v, role, name)
              found == OnSide(reactions[1], role, name)
          IN  IF n = 0 THEN found = <<>>
              ELSE Len(found) = 1 /\ found[1].stoichiometry = n

\* C15: every constructed Reaction has at least one reactant and at least
\* one product.
C15_BothSides ==
    (call.op = "Reaction" /\ err = "")
    => /\ reactants(reactions[1]) # <<>>
       /\ products(reactions[1]) # <<>>

\* the names of one side of a reaction, in alphabetical order
SideNames(reaction, role) ==
    SortedSeq({reaction.components[x].name :
                  x \in {y \in DOMAIN reaction.components :
                            reaction.components[y].role = role}})

\* C17: swap_reactants_and_products turns every reactant into a product and
\* every product into a reactant and keeps names and stoichiometries;
\* ordered_names() is then the former products followed by the former
\* reactants, each in alphabetical order; a second swap gives the reaction
\* back.
C17_SwapFlipsRoles ==
    [][(call'.op = "swap_reactants_and_products" /\ nops' = nops + 1)
       => LET before == reactions[1]
              after == reactions'[1]
          IN  /\ Len(after.components) = Len(before.components)
              /\ \A x \in DOMAIN before.components :
                    /\ after.components[x].name = before.components[x].name
                    /\ after.components[x].stoichiometry
                          = before.components[x].stoichiometry
                    /\ after.components[x].role # before.components[x].role
                    /\ after.components[x].role \in {"Reactant", "Product"}
              /\ after.k = before.k
              /\ after.reversible = before.reversible
              /\ ordered_names(after) = SideNames(before, "Product")
                                          \o SideNames(before, "Reactant")
              /\ swap_reactants_and_products(after) = before]_vars

\* Reaction(Reactant('R'), Product('P')) swapped: ordered_names() = [P, R]
C17_Witness ==
    /\ nops = 1
    /\ call.op = "ordered_names"
    /\ result = <<1, 2>>
    /\ reactions[1].components =
         <<[name |-> 1, role |-> "Reactant", stoichiometry |-> 1],
           [name |-> 2, role |-> "Product", stoichiometry |-> 1]>>

\* the names and stoichiometries of a side
SideOf(species) ==
    [x \in 1..Len(species) |-> <<species[x].name, species[x].stoichiometry>>]

\* C16: a ReactionSet built from n reactions of which r are reversible holds
\* n + r reactions, each reversible one as its forward form followed by its
\* reverse, and every reaction of the set is irreversible; setting the rate
\* constant of one reaction changes the k of that reaction only and no
\* component of any reaction.
C16_ReversibleExpanded ==
    /\ [](call.op = "ReactionSet"
          => LET rxns == call.v
                 r == Cardinality({x \in 1..Len(rxns) : is_reversible(rxns[x])})
                 ex == Expanded(rxns)
             IN  /\ Len(reactions) = Len(rxns) + r
                 /\ Len(reactions) = Len(ex)
                 /\ \A x \in 1..Len(reactions) :
                       /\ SideOf(reactants(reactions[x])) = SideOf(ex[x].R)
                       /\ SideOf(products(reactions[x])) = SideOf(ex[x].P)
                       /\ ~is_reversible(reactions[x]))
    /\ [][(/\ call'.op \in {"set_rate_constant", "set_rate_constant_at"}
            /\ nops' = nops + 1
            /\ err' = "")
           => \E x \in 1..Len(reactions) :
                 /\ reactions' = [reactions EXCEPT ![x].k = reactions'[x].k]
                 /\ call'.op = "set_rate_constant"
                    => /\ ordered_names(reactions[x]) = call'.v[1]
                       /\ reactions'[x].k = call'.v[2]
                 /\ call'.op = "set_rate_constant_at"
                    => /\ x = call'.v[1] + 1
                       /\ reactions'[x].k = call'.v[2]]_vars

(* -------------------------- building (claims) -------------------------- *)
\* the number of distinct names on one side of a flat list
DistinctNames(args, role) ==
    Cardinality({args[x].name : x \in {y \in DOMAIN args : args[y].role = role}})

BuildFailed == err = "NotImplementedError" /\ network = EmptyGraph

SelfLoopArgs(args) ==
    /\ Len(args) = 2
    /\ args[1].role = "Reactant"
    /\ args[2].role = "Product"
    /\ args[1].name = args[2].name

AllNames(rxns) ==
    UNION {{rxns[x].components[y].name : y \in DOMAIN rxns[x].components} :
           x \in DOMAIN rxns}

FirstReactionOf(rxns, name) ==
    CHOOSE x \in DOMAIN rxns :
        /\ \E y \in DOMAIN rxns[x].components : rxns[x].components[y].name = name
        /\ \A z \in 1..(x - 1) :
              \A y \in DOMAIN rxns[z].components :
                  rxns[z].components[y].name # name

SeenBefore(rxns, a, b) ==
    \/ FirstReactionOf(rxns, a) < FirstReactionOf(rxns, b)
    \/ FirstReactionOf(rxns, a) = FirstReactionOf(rxns, b) /\ a < b

\* C20: a built network has one node per distinct name of the reactions,
\* and the node of a name has as index the number of names seen before it
\* (reactions in the given order, the components of a reaction by name);
\* node_mapping gives every name that one index.
C20_NodesFirstSeen ==
    Constructed
    => LET names == AllNames(reactions)
       IN  /\ Len(network.nodes) = Cardinality(names)
           /\ \A name \in names :
                 /\ Cardinality({x \in 1..Len(network.nodes) :
                                    network.nodes[x].name = name}) = 1
                 /\ node_mapping(network)[name] - 1
                       = Cardinality({b \in names :
                                        SeenBefore(reactions, b, name)})
                 /\ network.nodes[node_mapping(network)[name]].name = name
           /\ DOMAIN node_mapping(network) = names

\* R -> P, A -> P (test_species): the nodes are P, R, A
C20_Witness ==
    /\ reactions = Sys_Species
    /\ call.op = "rate_constants"
    /\ NamesOf(network.nodes) = <<2, 3, 1>>
    /\ node_mapping(network)[1] = 3

(* -------------------------------- data.py ------------------------------ *)
\* an argument passed where an array is expected: its Python type, whether
\* float() accepts its values, and its values (of a str array, stand-ins)
ndarray(v) == [type |-> "ndarray", dtype |-> "float", v |-> v]

StrArray == [type |-> "ndarray", dtype |-> "str", v |-> <<0, 1, 2>>]

PyList == [type |-> "list", dtype |-> "float", v |-> <<0, 1, 2>>]

PyNone == [type |-> "NoneType", dtype |-> "float", v |-> <<>>]

\* np.min(np.diff(times)) < 0, for an array of at least two samples
MinDiffNegative(v) == \E x \in 1..(Len(v) - 1) : v[x + 1] - v[x] < 0

\* an argument that is no ndarray, or a value that float() rejects
ArrayRejected(array) ==
    \/ array.type # "ndarray"
    \/ array.dtype = "str" /\ array.v # <<>>

\* TimeSeries._check: the exception it raises, "" when it returns; np.min
\* of the empty np.diff of fewer than two samples raises ValueError
TimeSeries_check(times, concentrations) ==
    IF ArrayRejected(times) \/ ArrayRejected(concentrations)
    THEN "AssertionError"
    ELSE IF Len(times.v) # Len(concentrations.v) THEN "AssertionError"
    ELSE IF Len(times.v) < 2 THEN "ValueError"
    ELSE IF MinDiffNegative(times.v) THEN "AssertionError"
    ELSE ""

\* TimeSeries(name, times, concentrations): the object when _check returns
TimeSeries(name, times, concentrations) ==
    [name |-> name, times |-> times, concentrations |-> concentrations,
     is_simulated |-> FALSE]

(* ---------------------------- one TimeSeries --------------------------- *)
SeqsUpTo(S, n) == UNION {[1..m -> S] : m \in 0..n}

TimesArgs ==
    {ndarray(v) : v \in SeqsUpTo(0..MaxTime, MaxSamples)}
    \cup {StrArray, PyList, PyNone}

\* only the length and the kind of the concentrations are read
ConcentrationsArgs ==
    {ndarray([x \in 1..m |-> c]) : m \in 0..MaxSamples, c \in 0..MaxConc}
    \cup {StrArray, PyList, PyNone}

\* TimeSeries(name, times, concentrations)
InitSeries ==
    \E name \in 1..NumNames, times \in TimesArgs,
       concentrations \in ConcentrationsArgs :
        /\ reactions = <<>>
        /\ network = EmptyGraph
        /\ call = [op |-> "TimeSeries", v |-> <<name, times, concentrations>>]
        /\ err = TimeSeries_check(times, concentrations)
        /\ result = IF TimeSeries_check(times, concentrations) = ""
                    THEN <<TimeSeries(name, times, concentrations)>>
                    ELSE <<>>
        /\ nops = 0
        /\ objects = <<>>

\* str(series): 'TimeSeries(name, n=len(times))'
SeriesStr ==
    /\ call.op = "TimeSeries"
    /\ err = ""
    /\ call' = [call EXCEPT !.op = "__str__"]
    /\ result' = <<result[1].name, Len(result[1].times.v)>>
    /\ UNCHANGED <<reactions, network, err, nops, objects>>

NextSeries == SeriesStr

SpecSeries == InitSeries /\ [][NextSeries]_vars

StrictlyIncreasing(v) == \A x \in 1..(Len(v) - 1) : v[x] < v[x + 1]

\* C23: a TimeSeries that was constructed has as many times as
\* concentrations and strictly increasing times, and a construction from
\* times that are not strictly increasing, from arrays of different lengths
\* or from values that float() rejects raises AssertionError
C23_SeriesValidated ==
    call.op = "TimeSeries" =>
        LET times == call.v[2]
            concentrations == call.v[3]
        IN  /\ err = "" =>
                /\ Len(result[1].times.v) = Len(result[1].concentrations.v)
                /\ StrictlyIncreasing(result[1].times.v)
            /\ (\/ times.type = "ndarray" /\ ~StrictlyIncreasing(times.v)
                \/ Len(times.v) # Len(concentrations.v)
                \/ times.dtype = "str"
                \/ concentrations.dtype = "str") => err = "AssertionError"

(* -------------------------- edge mapping (claims) ---------------------- *)
ClassesWith(G, e) ==
    {n \in ClassesOf(G) : Contains(G.edge_mapping[n].edges, e)}

\* C25: the edge mapping of a built network is a partition of its reaction
\* edges: every reaction edge is in exactly one class, no two classes have
\* an edge in common and no class holds a co-reactant edge.
C25_MappingIsPartition ==
    Constructed
    => /\ \A e \in ReactionEdges(network) :
             Cardinality(ClassesWith(network, e)) = 1
       /\ \A n \in ClassesOf(network), m \in ClassesOf(network) :
             n # m => Range(network.edge_mapping[n].edges)
                      \cap Range(network.edge_mapping[m].edges) = {}
       /\ \A n \in ClassesOf(network) :
             \A e \in Range(network.edge_mapping[n].edges) :
                 ~network.attr[e].add

\* the ordered pairs of distinct species on one side of a reaction
SidePairs(G, r) ==
    {<<node_name_to_index(side[x].name, G), node_name_to_index(side[y].name, G)>> :
        <<side, x, y>> \in
            {t \in {r.R, r.P} \X (1..2) \X (1..2) :
                 /\ t[2] # t[3]
                 /\ t[2] <= Len(t[1])
                 /\ t[3] <= Len(t[1])}}

AllReactionPairs(G, rxns) ==
    UNION {EdgesOf(G, Expanded(rxns)[x]) : x \in 1..Len(Expanded(rxns))}

\* C26: a built network has, for every reactant r and product p of every
\* expanded reaction, the reaction edge r -> p (add = False, k a number),
\* also when a later reaction has r and p on one side, and for two species
\* on one side that no reaction turns into one another a co-reactant edge.
C26_ReactionEdgesKept ==
    Constructed
    => \A x \in 1..Len(Expanded(reactions)) :
          LET r == Expanded(reactions)[x]
          IN  /\ \A e \in EdgesOf(network, r) :
                    /\ HasEdge(network, e)
                    /\ ~network.attr[e].add
                    /\ network.attr[e].k # NoneK
              /\ \A e \in SidePairs(network, r)
                            \ AllReactionPairs(network, reactions) :
                    HasEdge(network, e) /\ network.attr[e].add

(* ----------------------- shared Species instances ---------------------- *)
\* objects: the Species instances the caller holds; a Reaction built from
\* them keeps references (positions in objects), not copies
Species(name) == [name |-> name, role |-> "Species", stoichiometry |-> 1]

\* instances of one name and of two names, of every class
HeldInstances ==
    {Reactant(1), Product(1), Species(1), Reactant(2), Product(2), Species(2)}

\* prune_species on references: the first instance of every name is kept
\* and its stoichiometry attribute is overwritten
prune_species_refs(heap, ids) ==
    LET unique_names == {heap[ids[x]].name : x \in DOMAIN ids}
        identical(name) == SelectSeq(ids, LAMBDA i : heap[i].name = name)
        sorted == SortedSeq(unique_names)
    IN  [heap |-> [i \in DOMAIN heap |->
                     IF \E name \in unique_names : identical(name)[1] = i
                     THEN [heap[i] EXCEPT !.stoichiometry =
                                              Len(identical(heap[i].name))]
                     ELSE heap[i]],
         components |-> [x \in 1..Len(sorted) |-> identical(sorted[x])[1]]]

\* Reaction(*args) with one argument that is neither a Reactant nor a
\* Product takes it for a string: args[0].split raises AttributeError
InitFromStringRaises(heap, ids) ==
    Len(ids) = 1 /\ heap[ids[1]].role = "Species"

\* swap_reactants_and_products on references: the class of the components
\* is exchanged one after the other, up to the first component that is
\* neither a Reactant nor a Product
RECURSIVE swap_in_place(_, _)
swap_in_place(heap, ids) ==
    IF ids = <<>> THEN [heap |-> heap, raised |-> FALSE]
    ELSE LET s == heap[Head(ids)]
         IN  IF s.role = "Reactant"
             THEN swap_in_place([heap EXCEPT ![Head(ids)].role = "Product"],
                                Tail(ids))
             ELSE IF s.role = "Product"
             THEN swap_in_place([heap EXCEPT ![Head(ids)].role = "Reactant"],
                                Tail(ids))
             ELSE [heap |-> heap, raised |-> TRUE]

\* the reaction as its methods see it: the components read through the
\* references
Deref(heap, reaction) ==
    [reaction EXCEPT !.components =
        [x \in DOMAIN reaction.components |-> heap[reaction.components[x]]]]

\* argument lists: instances the caller holds, each passed at most once
IdLists ==
    {ids \in SeqsUpTo(1..MaxObjects, MaxObjects) :
        /\ ids # <<>>
        /\ \A x \in 1..(Len(ids) - 1) : ids[x] < ids[x + 1]}

\* the caller creates MaxObjects instances and the first Reaction
InitShared ==
    \E heap \in [1..MaxObjects -> HeldInstances], ids \in IdLists :
        /\ network = EmptyGraph
        /\ call = [op |-> "Reaction", v |-> ids]
        /\ result = <<>>
        /\ nops = 0
        /\ IF InitFromStringRaises(heap, ids)
           THEN /\ objects = heap
                /\ reactions = <<>>
                /\ err = "AttributeError"
           ELSE /\ objects = prune_species_refs(heap, ids).heap
                /\ reactions =
                     <<[components |-> prune_species_refs(heap, ids).components,
                        reversible |-> FALSE, k |-> 1]>>
                /\ err = ""

\* a further Reaction(*args) from instances the caller holds
ConstructReaction(ids) ==
    /\ Len(reactions) = 1
    /\ call' = [op |-> "Reaction", v |-> ids]
    /\ IF InitFromStringRaises(objects, ids)
       THEN /\ err' = "AttributeError"
            /\ UNCHANGED <<objects, reactions>>
       ELSE /\ objects' = prune_species_refs(objects, ids).heap
            /\ reactions' = Append(reactions,
                 [components |-> prune_species_refs(objects, ids).components,
                  reversible |-> FALSE, k |-> 1])
            /\ err' = ""
    /\ UNCHANGED <<network, result, nops>>

\* reactions[x].swap_reactants_and_products()
SwapShared(x) ==
    /\ nops < MaxOps
    /\ x \in DOMAIN reactions
    /\ LET r == swap_in_place(objects, reactions[x].components)
       IN  /\ objects' = r.heap
           /\ err' = IF r.raised THEN "RKSimCritical" ELSE ""
    /\ call' = [op |-> "swap_reactants_and_products", v |-> <<x>>]
    /\ nops' = nops + 1
    /\ UNCHANGED <<reactions, network, result>>

NextShared ==
    \/ \E ids \in IdLists : ConstructReaction(ids)
    \/ \E x \in 1..2 : SwapShared(x)

SpecShared == InitShared /\ [][NextShared]_vars

Roles(heap) == [i \in DOMAIN heap |-> heap[i].role]

\* C29: a swap_reactants_and_products that raises RKSimCritical leaves the
\* class of every component of the reaction, and of every instance the
\* caller holds, as it was before the call.
C29_SwapAllOrNothing ==
    [][(call'.op = "swap_reactants_and_products" /\ nops' = nops + 1
        /\ err' = "RKSimCritical")
       => Roles(objects') = Roles(objects)]_vars

\* what the methods of a reaction return: reactants(), products() and
\* sto(name) for every name
Observed(heap, reaction) ==
    [R |-> reactants(Deref(heap, reaction)),
     P |-> products(Deref(heap, reaction)),
     sto |-> [name \in 0..2 |-> sto(Deref(heap, reaction), name)]]

\* C30: the construction of a further Reaction, and the swap of one
\* Reaction, leave reactants(), products() and sto(name) of every other
\* Reaction as they were.
C30_NoInterference ==
    [][/\ (call'.op = "Reaction" /\ Len(reactions) = 1)
          => Observed(objects', reactions[1]) = Observed(objects, reactions[1])
       /\ (call'.op = "swap_reactants_and_products" /\ nops' = nops + 1)
          => \A y \in DOMAIN reactions :
                y # call'.v[1]
                => Observed(objects', reactions[y])
                   = Observed(objects, reactions[y])]_vars

(* --------------------------- data.py: Data ----------------------------- *)
\* in a System that is fitted, objects holds the Species instance of every
\* node (its name and the series attached to it; no series is <<>>) and
\* the list of TimeSeries of the caller's Data
SpeciesOf(G) ==
    [i \in 1..Len(G.nodes) |->
        [name |-> G.nodes[i].name, series |-> <<>>, simulated_series |-> <<>>]]

\* an experimental series of two samples, measured up to MaxTime
Measured(name, c) ==
    TimeSeries(name, ndarray(<<0, MaxTime>>), ndarray(<<c, 0>>))

\* Data.max_time(): the largest last time of the series
max_time_of(data) ==
    CHOOSE t \in {data[x].times.v[Len(data[x].times.v)] : x \in DOMAIN data} :
        \A y \in DOMAIN data : data[y].times.v[Len(data[y].times.v)] <= t

\* the last series of the data that has the name
LastNamed(data, name) ==
    LET named == SelectSeq(data, LAMBDA ts : ts.name = name)
    IN  named[Len(named)]

HasSeries(data, name) == \E x \in DOMAIN data : data[x].name = name

\* Data.assign(system): for every series, in order, every node of its name
\* gets species.series = series and c0 = series.concentrations[0]
assign_species(data, objs) ==
    [i \in DOMAIN objs |->
        IF HasSeries(data, objs[i].name)
        THEN [objs[i] EXCEPT !.series = <<LastNamed(data, objs[i].name)>>]
        ELSE objs[i]]

\* assign that takes c0 from the first series of the name
assign_network_FirstSeries(data, G) ==
    [G EXCEPT !.nodes =
        [i \in DOMAIN G.nodes |->
            IF HasSeries(data, G.nodes[i].name)
            THEN [G.nodes[i] EXCEPT
                    !.c0 = SelectSeq(data, LAMBDA ts :
                               ts.name = G.nodes[i].name)[1].concentrations.v[1]]
            ELSE G.nodes[i]]]

\* Data.assign(system): c0 = time_series.concentrations[0], series by series
assign_network(data, G) ==
    [G EXCEPT !.nodes =
        [i \in DOMAIN G.nodes |->
            IF HasSeries(data, G.nodes[i].name)
            THEN [G.nodes[i] EXCEPT
                    !.c0 = LastNamed(data, G.nodes[i].name).concentrations.v[1]]
            ELSE G.nodes[i]]]

(* -------------------------------- fit.py ------------------------------- *)
\* np.linspace(0.0, max_time, n): n sample times, held as their positions
\* 0..n-1 along the time span; t_eval = np.linspace(0.0, max_time, 1000)
linspace(n) == [x \in 1..n |-> x - 1]

TEval == linspace(1000)

\* the sample times an integrator that is given no t_eval chooses, n of them
SolverTimes(n) == linspace(n)

\* scipy.integrate.solve_ivp: the sample times t and an array y of shape
\* (number of species, number of times); the array is held by its shape and
\* the fit call that ran the integrator
solve_ivp(G, run, t) ==
    [t |-> t, y |-> [shape |-> <<Len(G.nodes), Len(t)>>, run |-> run]]

\* y[s][x]: the concentration of species s at sample x, which stands for
\* itself
At(y, s, x) == [run |-> y.run, species |-> s, sample |-> x]

\* concentrations[:, i] of an array of shape (n, m), i 1-based
Column(y, i) == [s \in 1..y.shape[1] |-> At(y, s, i)]

\* System.set_simulated(concentrations, times): the species in node order;
\* the first TimeSeries that cannot be built ends the loop with its error
RECURSIVE set_simulated_from(_, _, _, _)
set_simulated_from(objs, concentrations, times, i) ==
    IF i > Len(objs) THEN [species |-> objs, err |-> ""]
    ELSE IF i > Len(times) THEN [species |-> objs, err |-> "IndexError"]
    ELSE LET concs == ndarray(Column(concentrations, i))
             raised == TimeSeries_check(ndarray(times), concs)
         IN  IF raised # "" THEN [species |-> objs, err |-> raised]
             ELSE set_simulated_from(
                      [objs EXCEPT ![i].simulated_series =
                          <<TimeSeries(objs[i].name, ndarray(times), concs)>>],
                      concentrations, times, i + 1)

set_simulated(objs, concentrations, times) ==
    set_simulated_from(objs, concentrations, times, 1)

\* set_rate_constant(idx, k=k) that also adds the reverse of the first edge
set_rate_constant_idx_AddsEdge(G, idx, k) ==
    LET e == G.edge_mapping[idx + 1].edges[1]
        H == [G EXCEPT !.attr = SetKs(G.attr,
                [x \in 1..Len(G.edge_mapping[idx + 1].edges) |->
                    <<G.edge_mapping[idx + 1].edges[x], k>>])]
    IN  AddEdge(H, e[2], e[1], [k |-> k, add |-> FALSE, sto |-> NoSto])

\* System.set_rate_constant(idx, k=k): every edge of the class idx gets k
set_rate_constant_idx(G, idx, k) ==
    [G EXCEPT !.attr = SetKs(G.attr,
        [x \in 1..Len(G.edge_mapping[idx + 1].edges) |->
            <<G.edge_mapping[idx + 1].edges[x], k>>])]

RECURSIVE set_rate_constant_idxs(_, _, _)
set_rate_constant_idxs(G, idxs, ks) ==
    IF idxs = <<>> THEN G
    ELSE set_rate_constant_idxs(set_rate_constant_idx(G, Head(idxs), Head(ks)),
                                Tail(idxs), Tail(ks))

\* the optimise argument of fit: False, True or a list of class indices
OptFalse == [type |-> "bool", value |-> FALSE, idxs |-> <<>>]

OptTrue == [type |-> "bool", value |-> TRUE, idxs |-> <<>>]

OptList(idxs) == [type |-> "list", value |-> TRUE, idxs |-> idxs]

\* len(system): the number of rate-constant classes
SystemLen(G) == Len(G.edge_mapping)

k_idxs_to_opt(G, optimise) ==
    IF optimise.type = "list" THEN optimise.idxs
    ELSE [x \in 1..SystemLen(G) |-> x - 1]

\* init_ks, and init_ks[k_idxs_to_opt] for a list
init_ks(G, optimise) ==
    [x \in 1..Len(k_idxs_to_opt(G, optimise)) |->
        rate_constants(G)[k_idxs_to_opt(G, optimise)[x] + 1]]

init_concs(G) == [i \in 1..Len(G.nodes) |-> G.nodes[i].c0]

(* --------------------------- a System is fitted ------------------------ *)
\* a run: the construction of a System and of a Data, at most one call of
\* a setter or of assign, and one data.fit that is followed through the
\* evaluations of the loss
FitSystems == {Sys_R_P, Sys_RevR_P, Sys_A_BC_B_C}

FirstName(G) == G.nodes[1].name

\* the Data a caller fits to: none, or one series of the first species
FitDataLists(G) == {<<>>, <<Measured(FirstName(G), MaxConc)>>}

ConstructedWith(rxns, data) ==
    /\ reactions = rxns
    /\ network = make_network(rxns)
    /\ err = ""
    /\ call = NoCall
    /\ result = <<>>
    /\ nops = 0
    /\ objects = [species |-> SpeciesOf(make_network(rxns)), data |-> data]

\* System(*args) and Data() + series
InitFit ==
    \E rxns \in FitSystems :
        \E data \in FitDataLists(make_network(rxns)) :
            ConstructedWith(rxns, data)

\* minimize() is running: fit is between two evaluations of mse
InFit == call.op = "minimize"

FirstCall == call = NoCall

CanFit == call.op \notin {"minimize", "fit"}

OptimiseArgs(G) ==
    {OptFalse, OptTrue}
    \cup {OptList(idxs) : idxs \in
            {s \in SeqsUpTo(0..(SystemLen(G) - 1), SystemLen(G)) :
                /\ s # <<>>
                /\ \A x \in 1..(Len(s) - 1) : s[x] < s[x + 1]}}

\* max_time arguments: None (held as 0) and a time
MaxTimeArgs == {0, 1}

\* the indices the running fit optimises
FitIdxs == IF InFit THEN result[1].k_idxs_to_opt ELSE <<>>

\* the vectors the optimiser proposes and returns: one value for every
\* index, or a value for the first index and its opposite for the others
Candidates(n) ==
    {[i \in 1..n |-> v] : v \in (0 - MaxK)..MaxK}
    \cup {[i \in 1..n |-> IF i = 1 THEN v ELSE 0 - v] : v \in (0 - MaxK)..MaxK}

\* the sample counts the integrator may choose for a system of m species
SolverSamples(m) == {m, m + 1}

FitSetRateConstantsAll(k) ==
    /\ FirstCall
    /\ SetRateConstantsAll(k)

FitSetInitialConcentration(name, c) ==
    /\ FirstCall
    /\ SetInitialConcentration(name, c)

FitSetRateConstant(name_i, name_j, k) ==
    /\ FirstCall
    /\ SetRateConstant(name_i, name_j, k)

FitDerivative(c) ==
    /\ FirstCall
    /\ Derivative(c)

\* data.assign(system)
Assign ==
    /\ FirstCall
    /\ network' = assign_network(objects.data, network)
    /\ objects' = [objects EXCEPT
                     !.species = assign_species(objects.data, objects.species)]
    /\ err' = ""
    /\ call' = [op |-> "assign", v |-> <<>>]
    /\ result' = <<>>
    /\ nops' = nops + 1
    /\ UNCHANGED reactions

\* the last lines of fit: solve_ivp on the 1000 times of t_eval and
\* set_simulated(concentrations=result.y, times=result.t)
Simulated(G, objs, run) ==
    LET sol == solve_ivp(G, run, TEval)
    IN  set_simulated(objs.species, sol.y, sol.t)

\* data.fit(system, optimise, max_time): assign, then fit up to the call of
\* minimize; with optimise = False, up to its end
DataFit(optimise, max_time) ==
    /\ CanFit
    /\ LET data == objects.data
           G == assign_network(data, network)
           objs == [objects EXCEPT
                      !.species = assign_species(data, objects.species)]
       IN  IF max_time = 0 /\ data = <<>>
           THEN \* max() of an empty sequence
                /\ network' = G
                /\ objects' = objs
                /\ err' = "ValueError"
                /\ call' = [op |-> "fit", v |-> <<optimise, max_time>>]
                /\ result' = <<>>
           ELSE LET locals ==
                        [init_concs |-> init_concs(G),
                         max_time |-> IF max_time = 0 THEN max_time_of(data)
                                      ELSE max_time,
                         k_idxs_to_opt |-> IF optimise = OptFalse THEN <<>>
                                           ELSE k_idxs_to_opt(G, optimise),
                         x0 |-> IF optimise = OptFalse THEN <<>>
                                ELSE init_ks(G, optimise)]
                IN  /\ network' = G
                    /\ result' = <<locals>>
                    /\ IF optimise = OptFalse
                       THEN LET r == Simulated(G, objs, nops + 1)
                            IN  /\ objects' = [objs EXCEPT !.species = r.species]
                                /\ err' = r.err
                                /\ call' = [op |-> "fit",
                                            v |-> <<optimise, max_time>>]
                       ELSE /\ objects' = objs
                            /\ err' = ""
                            /\ call' = [op |-> "minimize",
                                        v |-> <<optimise, max_time>>]
    /\ nops' = nops + 1
    /\ UNCHANGED reactions

\* mse(rate_constants, ...): one evaluation of the loss by the optimiser; an
\* exception of set_simulated ends minimize and fit
LossEvaluation(ks, n) ==
    /\ InFit
    /\ LET G == set_rate_constant_idxs(network, FitIdxs, ks)
           sol == solve_ivp(G, nops, SolverTimes(n))
           r == set_simulated(objects.species, sol.y, sol.t)
       IN  /\ network' = G
           /\ objects' = [objects EXCEPT !.species = r.species]
           /\ err' = r.err
           /\ call' = IF r.err = "" THEN call ELSE [call EXCEPT !.op = "fit"]
    /\ UNCHANGED <<reactions, result, nops>>

\* minimize returns result.x: set_rate_constant(idx, k=np.abs(result.x)[i])
\* and the last lines of fit
FitReturn(x) ==
    /\ InFit
    /\ LET G == set_rate_constant_idxs(network, FitIdxs,
                                       [i \in DOMAIN x |-> Abs(x[i])])
           r == Simulated(G, objects, nops)
       IN  /\ network' = G
           /\ objects' = [objects EXCEPT !.species = r.species]
           /\ err' = r.err
    /\ call' = [call EXCEPT !.op = "fit"]
    /\ UNCHANGED <<reactions, result, nops>>

NextFit ==
    \/ \E k \in KValues : FitSetRateConstantsAll(k)
    \/ \E name \in CallNames, c \in 0..MaxConc :
          FitSetInitialConcentration(name, c)
    \/ \E name_i \in CallNames, name_j \in CallNames, k \in KValues :
          FitSetRateConstant(name_i, name_j, k)
    \/ \E v \in 0..MaxConc : FitDerivative([i \in 1..Len(network.nodes) |-> v])
    \/ Assign
    \/ \E optimise \in OptimiseArgs(network), max_time \in MaxTimeArgs :
          DataFit(optimise, max_time)
    \/ \E x \in Candidates(Len(FitIdxs)) : FitReturn(x)
    \/ \E ks \in Candidates(Len(FitIdxs)),
          n \in SolverSamples(Len(network.nodes)) :
          LossEvaluation(ks, n)

SpecFit == InitFit /\ [][NextFit]_vars

(* ----------------------------- fit (claims) ---------------------------- *)
\* a step of data.fit: its call, an evaluation of the loss, or its end
FitCalled == call'.op \in {"fit", "minimize"} /\ nops' = nops + 1

EdgeKs(G) == [e \in DOMAIN G.attr |-> G.attr[e].k]

NotOptimised(G, idxs) ==
    {n \in 1..SystemLen(G) : \A x \in DOMAIN idxs : idxs[x] # n - 1}

\* C21: data.fit does not change a k when it is called and, with
\* optimise = False, at all; the initial guess of the optimiser is the
\* rate constant of every optimised class at the time of the call; and an
\* evaluation of the loss or the end of fit leaves the rate constant of
\* every class that is not optimised as it was.
C21_OnlyOptimisedChange ==
    [][/\ FitCalled
          => /\ EdgeKs(network') = EdgeKs(network)
             /\ call'.op = "minimize"
                => result'[1].x0 =
                     [x \in DOMAIN result'[1].k_idxs_to_opt |->
                        rate_constants(network)[result'[1].k_idxs_to_opt[x] + 1]]
       /\ InFit
          => \A n \in NotOptimised(network, FitIdxs) :
                rate_constants(network')[n] = rate_constants(network)[n]]_vars

\* C22: while fit runs and when it has ended, every reaction edge has
\* k >= 0: the loss and the end of fit write absolute values, so that every
\* integration reads non-negative rate constants.
C22_NonNegativeKs ==
    call.op \in {"fit", "minimize"}
    => \A e \in ReactionEdges(network) : network.attr[e].k >= 0

\* the trajectory of species i over the sample times t of the run
Trajectory(run, i, t) ==
    [x \in DOMAIN t |-> [run |-> run, species |-> i, sample |-> x]]

IsTrajectoryOf(series, i) ==
    \E run \in 0..(nops + 1) :
        series.concentrations.v = Trajectory(run, i, series.times.v)

\* C27: a data.fit that is given a time span returns, and then every
\* species has the simulated series of this call: the sample times of the
\* integrator and, for each of them, the concentration of that species;
\* a simulated series attached to a species is at any time a trajectory of
\* that species.
C27_SimulatedOverwritten ==
    /\ (call.op = "fit" /\ result # <<>>)
       => /\ err = ""
          /\ \A i \in DOMAIN objects.species :
                /\ objects.species[i].simulated_series # <<>>
                /\ objects.species[i].simulated_series[1].times.v = TEval
                /\ objects.species[i].simulated_series[1].concentrations.v
                   = Trajectory(nops, i, TEval)
    /\ call.op \in {"fit", "minimize"}
       => \A i \in DOMAIN objects.species :
             objects.species[i].simulated_series # <<>>
             => IsTrajectoryOf(objects.species[i].simulated_series[1], i)

\* what stays of a network: its nodes and their names, its edges in order,
\* their add flags and the edge mapping
Structure(G) ==
    [names |-> NamesOf(G.nodes),
     adj |-> G.adj,
     add |-> [e \in DOMAIN G.attr |-> G.attr[e].add],
     edge_mapping |-> G.edge_mapping]

\* C28: no call of set_rate_constants, set_initial_concentration,
\* Data.assign or data.fit, no evaluation of the loss and no end of fit,
\* whether it returns or raises, changes the nodes, the edges, their add
\* flags or the edge mapping of the network.
C28_StructureFixed ==
    [][Structure(network') = Structure(network)]_vars

C28_Witness ==
    /\ reactions = Sys_RevR_P
    /\ call.op = "fit"
    /\ err = "AssertionError"
    /\ rate_constants(network) = <<2, 1>>
    /\ network.nodes[1].c0 = MaxConc
    /\ Structure(network) = Structure(make_network(reactions))

(* ------------------- a System is given data and fitted ----------------- *)
\* a run: the construction of a System and of a Data of up to two series,
\* whose names are species of the System or not and may repeat; at most one
\* call of set_initial_concentration or of assign; one data.fit up to its
\* call of minimize
AssignDataLists(G) ==
    SeqsUpTo({Measured(name, c) : name \in NodeNames(G) \cup {0},
                                  c \in 0..MaxConc}, 2)

InitAssign ==
    \E rxns \in FitSystems :
        \E data \in AssignDataLists(make_network(rxns)) :
            ConstructedWith(rxns, data)

NextAssign ==
    \/ \E name \in CallNames, c \in 0..MaxConc :
          FitSetInitialConcentration(name, c)
    \/ Assign
    \/ \E optimise \in OptimiseArgs(network), max_time \in MaxTimeArgs :
          DataFit(optimise, max_time)

SpecAssign == InitAssign /\ [][NextAssign]_vars

\* fit has computed init_concs in this step
InitConcsTaken == FitCalled /\ result' # <<>>

\* C24: init_concs has one entry for every node, in node order: the first
\* concentration of the series that assign attached to the species of the
\* node, a series of the data with the name of the species; for a species
\* that no series of the data names, the c0 of the node before the call,
\* which neither assign nor fit changes and which is the positive default
\* after construction and the value of the caller after
\* set_initial_concentration.
C24_InitialConcentrations ==
    /\ [](call = NoCall
          => /\ C0Default > 0
             /\ \A i \in DOMAIN network.nodes :
                   network.nodes[i].c0 = C0Default)
    /\ []((call.op = "set_initial_concentration" /\ err = "")
          => \A i \in DOMAIN network.nodes :
                network.nodes[i].c0 = IF network.nodes[i].name = call.v[1]
                                      THEN call.v[2] ELSE C0Default)
    /\ [][/\ InitConcsTaken
             => /\ Len(result'[1].init_concs) = Len(network.nodes)
                /\ \A i \in DOMAIN network.nodes :
                      IF HasSeries(objects.data, network.nodes[i].name)
                      THEN /\ objects'.species[i].series # <<>>
                           /\ objects'.species[i].series[1].name
                              = network.nodes[i].name
                           /\ \E x \in DOMAIN objects.data :
                                 objects.data[x] = objects'.species[i].series[1]
                           /\ result'[1].init_concs[i]
                              = objects'.species[i].series[1].concentrations.v[1]
                      ELSE /\ objects'.species[i].series = <<>>
                           /\ result'[1].init_concs[i] = network.nodes[i].c0
          /\ (FitCalled \/ call'.op = "assign")
             => \A i \in DOMAIN network.nodes :
                   ~HasSeries(objects.data, network.nodes[i].name)
                   => network'.nodes[i].c0 = network.nodes[i].c0]_vars

\* A -> B + C, B -> C with two series of A, of first samples 1 and MaxConc,
\* after set_initial_concentration('B', MaxConc) and a fit: init_concs is
\* the last series' first sample, the caller's value and the default
C24_Witness ==
    /\ reactions = Sys_A_BC_B_C
    /\ objects.data = <<Measured(1, 1), Measured(1, MaxConc)>>
    /\ call.op = "minimize"
    /\ result # <<>>
    /\ result[1].init_concs = <<MaxConc, MaxConc, C0Default>>
    /\ objects.species[1].series = <<Measured(1, MaxConc)>>
    /\ network.nodes[2].c0 = MaxConc

=============================================================================
